---------------------------- MODULE Spec2Model ----------------------------
(***************************************************************************)
(* A model of webpki's time conversion (src/src/time.rs), error ranking    *)
(* (src/src/error.rs) and end-entity verification entry point              *)
(* (src/src/end_entity.rs).                                                 *)
(*                                                                         *)
(* The specifications share the variables below:                           *)
(*   SpecTime       Time::from_der, time_from_ymdhms_utc, days_in_month    *)
(*   SpecSuccessor  time_from_ymdhms_utc on a second and on the next       *)
(*   SpecYears      days_before_year_since_unix_epoch, year after year     *)
(*   SpecErr        Error::rank and Error::most_specific, folded over the  *)
(*                  errors of candidate branches                           *)
(*   SpecChain      EndEntityCert::verify_for_usage and the path search it *)
(*                  delegates to; SpecChainClosure keeps the calls with    *)
(*                  the signature budget the design names; SpecChainRuns   *)
(*                  adds that a call runs on until it returns              *)
(* In each specification the variables of the others keep their idle       *)
(* values.                                                                 *)
(***************************************************************************)
EXTENDS Integers, Sequences, FiniteSets, TLC

VARIABLES
    \* ---- time.rs ----
    input,      \* the DER element handed to Time::from_der: [tag, value]
    civ,        \* the civil fields the element was encoded from
    tpc,        \* position in the time pipeline
    parsed,     \* result of Time::from_der(input)
    converted,  \* result of time_from_ymdhms_utc(civ)
    dim,        \* result of days_in_month(civ.year, civ.month)
    \* ---- error.rs ----
    error,      \* the accumulated error: history folded from the left
    flipped,    \* the same errors combined with the arguments swapped
    regrouped,  \* the same errors combined grouping from the right
    history,    \* the errors combined so far, in order
    \* ---- end_entity.rs and the path search ----
    call,       \* the end-entity certificate, the arguments of
                \* verify_for_usage, and the signature checks the
                \* implementation allows a call
    chain,      \* the arguments verify_for_usage hands to build_chain
    stack,      \* the search: one frame per certificate of the current path
    budget,     \* the signature checks left to this call
    result,     \* what verify_for_usage returned
    cpc,        \* position of the call: "start", "build_chain", "search",
                \* "done"
    \* ---- time.rs: the calendar ----
    moment,     \* a second of the calendar, as civil fields
    successor,  \* the second after moment, as civil fields
    other,      \* another second of the calendar, as civil fields
    stamp,      \* result of time_from_ymdhms_utc(moment)
    succ_stamp, \* result of time_from_ymdhms_utc(successor)
    other_stamp, \* result of time_from_ymdhms_utc(other)
    spc,        \* position in the conversion of the three
    walk_year,  \* the year a walk through the years has reached
    before_ad,  \* result of days_before_year_ad(walk_year)
    before,     \* result of days_before_year_since_unix_epoch(walk_year)
    before_last, \* the same for the year before walk_year
    elapsed,    \* the lengths of the years from 1970 to walk_year - 1, summed
    ypc         \* position in the walk

timeVars == <<input, civ, tpc, parsed, converted, dim>>
errVars == <<error, flipped, regrouped, history>>
chainVars == <<call, chain, stack, budget, result, cpc>>
succVars == <<moment, successor, other, stamp, succ_stamp, other_stamp, spc>>
yearVars == <<walk_year, before_ad, before, before_last, elapsed, ypc>>
calVars == <<succVars, yearVars>>
vars == <<timeVars, errVars, chainVars, calVars>>

---------------------------------------------------------------------------
(***************************************************************************)
(* error.rs: the Error enum                                                *)
(***************************************************************************)

\* enum DerTypeId (plus "None" for the kinds that carry no payload)
DerTypeIds ==
    {"BitString", "Bool", "Certificate", "CertificateExtensions",
     "CertificateTbsCertificate", "CertRevocationList",
     "CertRevocationListExtension", "CrlDistributionPoint", "CommonNameInner",
     "CommonNameOuter", "DistributionPointName", "Extension", "GeneralName",
     "RevocationReason", "Signature", "SignatureAlgorithm", "SignedData",
     "SubjectPublicKeyInfo", "Time", "TrustAnchorV1",
     "TrustAnchorV1TbsCertificate", "U8", "RevokedCertificate",
     "RevokedCertificateExtension", "RevokedCertEntry",
     "IssuingDistributionPoint"}

\* the unit variants of enum Error
UnitKinds ==
    {"BadDer", "BadDerTime", "CaUsedAsEndEntity", "CertExpired",
     "CertNotValidForName", "CertNotValidYet", "CertRevoked",
     "EndEntityUsedAsCa", "ExtensionValueInvalid", "InvalidCertValidity",
     "InvalidCrlNumber", "InvalidNetworkMaskConstraint", "InvalidSerialNumber",
     "InvalidCrlSignatureForPublicKey", "InvalidSignatureForPublicKey",
     "IssuerNotCrlSigner", "MalformedDnsIdentifier", "MalformedExtensions",
     "MalformedNameConstraint", "MaximumSignatureChecksExceeded",
     "NameConstraintViolation", "PathLenConstraintViolated",
     "RequiredEkuNotFound", "SignatureAlgorithmMismatch", "UnknownIssuer",
     "UnknownRevocationStatus", "UnsupportedCertVersion",
     "UnsupportedCriticalExtension", "UnsupportedCrlIssuingDistributionPoint",
     "UnsupportedCrlVersion", "UnsupportedDeltaCrl", "UnsupportedIndirectCrl",
     "UnsupportedRevocationReason", "UnsupportedRevocationReasonsPartitioning",
     "UnsupportedCrlSignatureAlgorithm", "UnsupportedSignatureAlgorithm",
     "UnsupportedCrlSignatureAlgorithmForPublicKey",
     "UnsupportedSignatureAlgorithmForPublicKey"}

\* an Error value: a unit variant, or TrailingData(DerTypeId)
E(k) == [kind |-> k, id |-> "None"]
TrailingData(id) == [kind |-> "TrailingData", id |-> id]

Errors == {E(k) : k \in UnitKinds} \cup {TrailingData(id) : id \in DerTypeIds}

\* the value the error variables hold while nothing has been combined
NoError == [kind |-> "NoError", id |-> "None"]


\* Error::rank with the values of IssuerNotCrlSigner and InvalidCertValidity
\* exchanged
rank_exchanged(e) ==
    CASE e.kind \in {"CertNotValidYet", "CertExpired"} -> 29
      [] e.kind = "CertNotValidForName" -> 28
      [] e.kind \in {"CertRevoked", "UnknownRevocationStatus"} -> 27
      [] e.kind \in {"InvalidCrlSignatureForPublicKey",
                     "InvalidSignatureForPublicKey"} -> 26
      [] e.kind = "SignatureAlgorithmMismatch" -> 25
      [] e.kind = "RequiredEkuNotFound" -> 24
      [] e.kind = "NameConstraintViolation" -> 23
      [] e.kind = "PathLenConstraintViolated" -> 22
      [] e.kind \in {"CaUsedAsEndEntity", "EndEntityUsedAsCa"} -> 21
      [] e.kind = "IssuerNotCrlSigner" -> 19
      [] e.kind = "InvalidCertValidity" -> 20
      [] e.kind = "InvalidNetworkMaskConstraint" -> 18
      [] e.kind = "InvalidSerialNumber" -> 17
      [] e.kind = "InvalidCrlNumber" -> 16
      [] e.kind \in {"UnsupportedCrlSignatureAlgorithmForPublicKey",
                     "UnsupportedSignatureAlgorithmForPublicKey"} -> 15
      [] e.kind \in {"UnsupportedCrlSignatureAlgorithm",
                     "UnsupportedSignatureAlgorithm"} -> 14
      [] e.kind = "UnsupportedCriticalExtension" -> 13
      [] e.kind = "UnsupportedCertVersion" -> 13
      [] e.kind = "UnsupportedCrlVersion" -> 12
      [] e.kind = "UnsupportedDeltaCrl" -> 11
      [] e.kind = "UnsupportedIndirectCrl" -> 10
      [] e.kind = "UnsupportedRevocationReason" -> 9
      [] e.kind = "UnsupportedRevocationReasonsPartitioning" -> 8
      [] e.kind = "UnsupportedCrlIssuingDistributionPoint" -> 7
      [] e.kind = "MalformedDnsIdentifier" -> 6
      [] e.kind = "MalformedNameConstraint" -> 5
      [] e.kind \in {"MalformedExtensions", "TrailingData"} -> 4
      [] e.kind = "ExtensionValueInvalid" -> 3
      [] e.kind = "BadDerTime" -> 2
      [] e.kind = "BadDer" -> 1
      [] e.kind = "MaximumSignatureChecksExceeded" -> 0
      [] e.kind = "UnknownIssuer" -> 0

\* Error::rank
rank(e) ==
    CASE e.kind \in {"CertNotValidYet", "CertExpired"} -> 29
      [] e.kind = "CertNotValidForName" -> 28
      [] e.kind \in {"CertRevoked", "UnknownRevocationStatus"} -> 27
      [] e.kind \in {"InvalidCrlSignatureForPublicKey",
                     "InvalidSignatureForPublicKey"} -> 26
      [] e.kind = "SignatureAlgorithmMismatch" -> 25
      [] e.kind = "RequiredEkuNotFound" -> 24
      [] e.kind = "NameConstraintViolation" -> 23
      [] e.kind = "PathLenConstraintViolated" -> 22
      [] e.kind \in {"CaUsedAsEndEntity", "EndEntityUsedAsCa"} -> 21
      [] e.kind = "IssuerNotCrlSigner" -> 20
      [] e.kind = "InvalidCertValidity" -> 19
      [] e.kind = "InvalidNetworkMaskConstraint" -> 18
      [] e.kind = "InvalidSerialNumber" -> 17
      [] e.kind = "InvalidCrlNumber" -> 16
      [] e.kind \in {"UnsupportedCrlSignatureAlgorithmForPublicKey",
                     "UnsupportedSignatureAlgorithmForPublicKey"} -> 15
      [] e.kind \in {"UnsupportedCrlSignatureAlgorithm",
                     "UnsupportedSignatureAlgorithm"} -> 14
      [] e.kind = "UnsupportedCriticalExtension" -> 13
      [] e.kind = "UnsupportedCertVersion" -> 13
      [] e.kind = "UnsupportedCrlVersion" -> 12
      [] e.kind = "UnsupportedDeltaCrl" -> 11
      [] e.kind = "UnsupportedIndirectCrl" -> 10
      [] e.kind = "UnsupportedRevocationReason" -> 9
      [] e.kind = "UnsupportedRevocationReasonsPartitioning" -> 8
      [] e.kind = "UnsupportedCrlIssuingDistributionPoint" -> 7
      [] e.kind = "MalformedDnsIdentifier" -> 6
      [] e.kind = "MalformedNameConstraint" -> 5
      [] e.kind \in {"MalformedExtensions", "TrailingData"} -> 4
      [] e.kind = "ExtensionValueInvalid" -> 3
      [] e.kind = "BadDerTime" -> 2
      [] e.kind = "BadDer" -> 1
      [] e.kind = "MaximumSignatureChecksExceeded" -> 0
      [] e.kind = "UnknownIssuer" -> 0

\* most_specific with the comparison reversed
most_specific_least(self, new) ==
    IF rank(self) <= rank(new) THEN self ELSE new

\* most_specific comparing self with itself
most_specific_self(self, new) ==
    IF rank(self) >= rank(self) THEN self ELSE new

\* most_specific letting self win when it is one rank below new
most_specific_slack(self, new) ==
    IF rank(self) + 1 >= rank(new) THEN self ELSE new

\* Error::most_specific
most_specific(self, new) ==
    IF rank(self) >= rank(new) THEN self ELSE new

\* most_specific folded over a sequence of errors, grouping from the right:
\* most_specific(s[1], most_specific(s[2], ...))
RECURSIVE FoldRight(_)
FoldRight(s) ==
    IF Len(s) = 1 THEN s[1] ELSE most_specific(s[1], FoldRight(Tail(s)))

\* the number of branch errors combined in one run
MaxBranches == 3

ErrIdle ==
    /\ error = NoError
    /\ flipped = NoError
    /\ regrouped = NoError
    /\ history = <<>>

\* the first branch fails with e
ErrInit ==
    \E e \in Errors :
        /\ error = e
        /\ flipped = e
        /\ regrouped = e
        /\ history = <<e>>

\* a further branch fails with new: `error = error.most_specific(new)`.
\* flipped and regrouped combine the same errors in the other orders.
MostSpecific ==
    /\ history # <<>>
    /\ Len(history) < MaxBranches
    /\ \E new \in Errors :
        /\ error' = most_specific(error, new)
        /\ flipped' = most_specific(new, flipped)
        /\ history' = Append(history, new)
        /\ regrouped' = FoldRight(Append(history, new))
    /\ UNCHANGED <<timeVars, chainVars, calVars>>

---------------------------------------------------------------------------
(***************************************************************************)
(* time.rs                                                                 *)
(***************************************************************************)

\* A Time is a u64 count of seconds.  The counts reached here (up to year
\* 9999) do not fit the model checker's integers, so a count n is held as
\* its two digits in base 86400: [days |-> n \div 86400, secs |-> n % 86400].
SecondsPerDay == 24 * 60 * 60

\* Time::from_seconds_since_unix_epoch applied to days * 86400 + secs
from_seconds_since_unix_epoch(days, secs) ==
    [days |-> days + (secs \div SecondsPerDay), secs |-> secs % SecondsPerDay]

\* Time::from_seconds_since_unix_epoch applied to a count that fits
TimeOfSeconds(n) == from_seconds_since_unix_epoch(0, n)

NoTime == [days |-> 0, secs |-> 0]

\* Result<_, Error>; Panic stands for unreachable!() being reached, NotRun
\* for an operation that has not been applied yet
Ok(t) == [tag |-> "Ok", time |-> t, err |-> NoError]
Err(e) == [tag |-> "Err", time |-> NoTime, err |-> e]
Panic == [tag |-> "Panic", time |-> NoTime, err |-> NoError]
NotRun == [tag |-> "NotRun", time |-> NoTime, err |-> NoError]

UNIX_EPOCH_YEAR == 1970

DAYS_BEFORE_UNIX_EPOCH_AD == 1969 * 365 + 477

\* the value of a match that reached its unreachable!() arm
Unreachable == -1

\* days_in_feb without the 400-year rule
days_in_feb_no_400(year) ==
    IF (year % 4 = 0) /\ (year % 100 # 0) THEN 29 ELSE 28

days_in_feb(year) ==
    IF (year % 4 = 0) /\ ((year % 100 # 0) \/ (year % 400 = 0)) THEN 29 ELSE 28

days_in_month(year, month) ==
    CASE month \in {1, 3, 5, 7, 8, 10, 12} -> 31
      [] month \in {4, 6, 9, 11} -> 30
      [] month = 2 -> days_in_feb(year)
      [] OTHER -> Unreachable

\* days_before_year_ad without the 400-year rule
days_before_year_ad_no_400(year) ==
    ((year - 1) * 365)
        + ((year - 1) \div 4)
        - ((year - 1) \div 100)

days_before_year_ad(year) ==
    ((year - 1) * 365)
        + ((year - 1) \div 4)
        - ((year - 1) \div 100)
        + ((year - 1) \div 400)

\* days_before_year_since_unix_epoch rejecting one year too few
days_before_year_since_unix_epoch_late(year) ==
    IF year < UNIX_EPOCH_YEAR - 1
    THEN [ok |-> FALSE, days |-> 0]
    ELSE [ok |-> TRUE, days |-> days_before_year_ad(year) - DAYS_BEFORE_UNIX_EPOCH_AD]

\* Result<u64, Error>: [ok, days]
days_before_year_since_unix_epoch(year) ==
    IF year < UNIX_EPOCH_YEAR
    THEN [ok |-> FALSE, days |-> 0]
    ELSE [ok |-> TRUE, days |-> days_before_year_ad(year) - DAYS_BEFORE_UNIX_EPOCH_AD]

\* time_from_ymdhms_utc taking September to have 31 days
time_from_ymdhms_utc_sep31(year, month, day_of_month, hours, minutes, seconds) ==
    LET dby == days_before_year_since_unix_epoch(year)
        JAN == 31
        feb == days_in_feb(year)
        MAR == 31
        APR == 30
        MAY == 31
        JUN == 30
        JUL == 31
        AUG == 31
        SEP == 31
        OCT == 31
        NOV == 30
        days_before_month_in_year ==
            CASE month = 1 -> 0
              [] month = 2 -> JAN
              [] month = 3 -> JAN + feb
              [] month = 4 -> JAN + feb + MAR
              [] month = 5 -> JAN + feb + MAR + APR
              [] month = 6 -> JAN + feb + MAR + APR + MAY
              [] month = 7 -> JAN + feb + MAR + APR + MAY + JUN
              [] month = 8 -> JAN + feb + MAR + APR + MAY + JUN + JUL
              [] month = 9 -> JAN + feb + MAR + APR + MAY + JUN + JUL + AUG
              [] month = 10 -> JAN + feb + MAR + APR + MAY + JUN + JUL + AUG + SEP
              [] month = 11 -> JAN + feb + MAR + APR + MAY + JUN + JUL + AUG + SEP + OCT
              [] month = 12 -> JAN + feb + MAR + APR + MAY + JUN + JUL + AUG + SEP + OCT + NOV
              [] OTHER -> Unreachable
        days_before == dby.days + days_before_month_in_year + day_of_month - 1
        seconds_of_day == (hours * 60 * 60) + (minutes * 60) + seconds
    IN  IF ~dby.ok THEN Err(E("BadDerTime"))
        ELSE IF days_before_month_in_year = Unreachable THEN Panic
        ELSE Ok(from_seconds_since_unix_epoch(days_before, seconds_of_day))

time_from_ymdhms_utc(year, month, day_of_month, hours, minutes, seconds) ==
    LET dby == days_before_year_since_unix_epoch(year)
        JAN == 31
        feb == days_in_feb(year)
        MAR == 31
        APR == 30
        MAY == 31
        JUN == 30
        JUL == 31
        AUG == 31
        SEP == 30
        OCT == 31
        NOV == 30
        days_before_month_in_year ==
            CASE month = 1 -> 0
              [] month = 2 -> JAN
              [] month = 3 -> JAN + feb
              [] month = 4 -> JAN + feb + MAR
              [] month = 5 -> JAN + feb + MAR + APR
              [] month = 6 -> JAN + feb + MAR + APR + MAY
              [] month = 7 -> JAN + feb + MAR + APR + MAY + JUN
              [] month = 8 -> JAN + feb + MAR + APR + MAY + JUN + JUL
              [] month = 9 -> JAN + feb + MAR + APR + MAY + JUN + JUL + AUG
              [] month = 10 -> JAN + feb + MAR + APR + MAY + JUN + JUL + AUG + SEP
              [] month = 11 -> JAN + feb + MAR + APR + MAY + JUN + JUL + AUG + SEP + OCT
              [] month = 12 -> JAN + feb + MAR + APR + MAY + JUN + JUL + AUG + SEP + OCT + NOV
              [] OTHER -> Unreachable
        days_before == dby.days + days_before_month_in_year + day_of_month - 1
        seconds_of_day == (hours * 60 * 60) + (minutes * 60) + seconds
    IN  IF ~dby.ok THEN Err(E("BadDerTime"))
        ELSE IF days_before_month_in_year = Unreachable THEN Panic
        ELSE Ok(from_seconds_since_unix_epoch(days_before, seconds_of_day))

\* untrusted::Reader::read_byte with the reader at position pos (1-based):
\* [ok, v].  A read that succeeds moves the reader one byte on; a read that
\* fails ends the parse (every caller returns at once with `?`), so the
\* reader's position is the start of the value plus the bytes read so far.
read_byte(bytes, pos) ==
    IF pos > Len(bytes)
    THEN [ok |-> FALSE, v |-> 0]
    ELSE [ok |-> TRUE, v |-> bytes[pos]]

\* a failed read: every failure of the readers below is Error::BadDerTime
ReadFailed == [ok |-> FALSE, v |-> 0]

\* read_digit taking DIGIT to be b'0'..=b':'
read_digit_through_colon(bytes, pos) ==
    LET b == read_byte(bytes, pos)
    IN  IF ~b.ok THEN ReadFailed
        ELSE IF b.v \in 48 .. 58 THEN [ok |-> TRUE, v |-> b.v - 48]
        ELSE ReadFailed

\* from_der::read_digit; DIGIT is b'0'..=b'9'
read_digit(bytes, pos) ==
    LET b == read_byte(bytes, pos)
    IN  IF ~b.ok THEN ReadFailed
        ELSE IF b.v \in 48 .. 57 THEN [ok |-> TRUE, v |-> b.v - 48]
        ELSE ReadFailed

\* read_two_digits weighting the high digit by 16 instead of 10
read_two_digits_hex(bytes, pos, min, max) ==
    LET hi == read_digit(bytes, pos)
        lo == read_digit(bytes, pos + 1)
        value == (hi.v * 16) + lo.v
    IN  IF ~hi.ok THEN ReadFailed
        ELSE IF ~lo.ok THEN ReadFailed
        ELSE IF value < min \/ value > max THEN ReadFailed
        ELSE [ok |-> TRUE, v |-> value]

\* from_der::read_two_digits with the reader at pos; it leaves the reader
\* at pos + 2 when it succeeds
read_two_digits(bytes, pos, min, max) ==
    LET hi == read_digit(bytes, pos)
        lo == read_digit(bytes, pos + 1)
        value == (hi.v * 10) + lo.v
    IN  IF ~hi.ok THEN ReadFailed
        ELSE IF ~lo.ok THEN ReadFailed
        ELSE IF value < min \/ value > max THEN ReadFailed
        ELSE [ok |-> TRUE, v |-> value]

\* read_year resolving the two-digit year 50 to 2050
read_year_pivot(bytes, is_utc_time) ==
    IF is_utc_time
    THEN LET lo == read_two_digits(bytes, 1, 0, 99)
             hi == IF lo.v > 50 THEN 19 ELSE 20
         IN  [ok |-> lo.ok, hi |-> hi, lo |-> lo.v, pos |-> 3]
    ELSE LET hi == read_two_digits(bytes, 1, 0, 99)
             lo == read_two_digits(bytes, 3, 0, 99)
         IN  [ok |-> hi.ok /\ lo.ok, hi |-> hi.v, lo |-> lo.v, pos |-> 5]

\* the year digits, read from the start of the value: UTCTime carries two
\* and the century is inferred, GeneralizedTime carries four.
\* [ok, hi, lo, pos |-> the reader's position after]
read_year(bytes, is_utc_time) ==
    IF is_utc_time
    THEN LET lo == read_two_digits(bytes, 1, 0, 99)
             hi == IF lo.v >= 50 THEN 19 ELSE 20
         IN  [ok |-> lo.ok, hi |-> hi, lo |-> lo.v, pos |-> 3]
    ELSE LET hi == read_two_digits(bytes, 1, 0, 99)
             lo == read_two_digits(bytes, 3, 0, 99)
         IN  [ok |-> hi.ok /\ lo.ok, hi |-> hi.v, lo |-> lo.v, pos |-> 5]

\* the closure reading the month without bounds
from_der_value_any_month(bytes, is_utc_time) ==
    LET y == read_year(bytes, is_utc_time)
        year == (y.hi * 100) + y.lo
        month == read_two_digits(bytes, y.pos, 0, 99)
        dim_ == days_in_month(year, month.v)
        day_of_month == read_two_digits(bytes, y.pos + 2, 1, dim_)
        hours == read_two_digits(bytes, y.pos + 4, 0, 23)
        minutes == read_two_digits(bytes, y.pos + 6, 0, 59)
        seconds == read_two_digits(bytes, y.pos + 8, 0, 59)
        time_zone == read_byte(bytes, y.pos + 10)
        bad == [res |-> Err(E("BadDerTime")), pos |-> 0]
    IN  IF ~y.ok THEN bad
        ELSE IF ~month.ok THEN bad
        ELSE IF dim_ = Unreachable THEN [res |-> Panic, pos |-> 0]
        ELSE IF ~day_of_month.ok THEN bad
        ELSE IF ~hours.ok THEN bad
        ELSE IF ~minutes.ok THEN bad
        ELSE IF ~seconds.ok THEN bad
        ELSE IF ~time_zone.ok THEN bad
        ELSE IF time_zone.v # 90 THEN bad
        ELSE [res |-> time_from_ymdhms_utc(year, month.v, day_of_month.v,
                                           hours.v, minutes.v, seconds.v),
              pos |-> y.pos + 11]

\* the closure Time::from_der hands to der::nested, applied to the element's
\* value: [res |-> Result<Time, Error>, pos |-> the reader's position after]
from_der_value(bytes, is_utc_time) ==
    LET y == read_year(bytes, is_utc_time)
        year == (y.hi * 100) + y.lo
        month == read_two_digits(bytes, y.pos, 1, 12)
        dim_ == days_in_month(year, month.v)
        day_of_month == read_two_digits(bytes, y.pos + 2, 1, dim_)
        hours == read_two_digits(bytes, y.pos + 4, 0, 23)
        minutes == read_two_digits(bytes, y.pos + 6, 0, 59)
        seconds == read_two_digits(bytes, y.pos + 8, 0, 59)
        time_zone == read_byte(bytes, y.pos + 10)
        bad == [res |-> Err(E("BadDerTime")), pos |-> 0]
    IN  IF ~y.ok THEN bad
        ELSE IF ~month.ok THEN bad
        ELSE IF dim_ = Unreachable THEN [res |-> Panic, pos |-> 0]
        ELSE IF ~day_of_month.ok THEN bad
        ELSE IF ~hours.ok THEN bad
        ELSE IF ~minutes.ok THEN bad
        ELSE IF ~seconds.ok THEN bad
        ELSE IF ~time_zone.ok THEN bad
        ELSE IF time_zone.v # 90 THEN bad
        ELSE [res |-> time_from_ymdhms_utc(year, month.v, day_of_month.v,
                                           hours.v, minutes.v, seconds.v),
              pos |-> y.pos + 11]

\* der::nested: the results it can give.  The element must carry the
\* expected tag, the decoder runs on its value, and a value the decoder
\* leaves unread is the given error.  der::nested is not part of this
\* source tree, and the design does not say which error an element with
\* another tag gets: the reader's BadDer, or the error nested was given.
\* Both are results.
nested(in, expected_tag, trailing, is_utc_time) ==
    IF in.tag # expected_tag THEN {Err(E("BadDer")), Err(trailing)}
    ELSE LET r == from_der_value(in.value, is_utc_time)
         IN  IF r.res.tag # "Ok" THEN {r.res}
             ELSE IF r.pos <= Len(in.value) THEN {Err(trailing)}
             ELSE {r.res}

\* <Time as FromDer>::from_der: the results it can give, one for an element
\* tagged UTCTime or GeneralizedTime
from_der(in) ==
    LET is_utc_time == (in.tag = "UTCTime")
        expected_tag == IF is_utc_time THEN "UTCTime" ELSE "GeneralizedTime"
    IN  nested(in, expected_tag, TrailingData("Time"), is_utc_time)

---------------------------------------------------------------------------
(***************************************************************************)
(* The inputs of the time pipeline                                         *)
(***************************************************************************)

\* the two ASCII digits of n, 0 <= n <= 99
TwoDigits(n) == <<48 + (n \div 10), 48 + (n % 10)>>

\* MMDDHHMMSS
FieldDigits(c) ==
    TwoDigits(c.month) \o TwoDigits(c.day) \o TwoDigits(c.hours)
        \o TwoDigits(c.minutes) \o TwoDigits(c.seconds)

\* the content YYYYMMDDHHMMSS of a GeneralizedTime, followed by suffix
GeneralizedTimeContent(c, suffix) ==
    TwoDigits(c.year \div 100) \o TwoDigits(c.year % 100) \o FieldDigits(c) \o suffix

\* the content YYMMDDHHMMSS of a UTCTime, followed by suffix
UtcTimeContent(c, suffix) ==
    TwoDigits(c.year % 100) \o FieldDigits(c) \o suffix

Content(tag, c, suffix) ==
    IF tag = "UTCTime" THEN UtcTimeContent(c, suffix)
    ELSE GeneralizedTimeContent(c, suffix)

\* "Z"
Zulu == <<90>>

\* what may follow the seconds instead of "Z": nothing, ".", "+", "-",
\* "z", and "Z" with a byte after it
OtherSuffixes == {<<>>, <<46>>, <<43>>, <<45>>, <<122>>, <<90, 48>>}

\* the number of consecutive years, from 1968 on, the inputs cover
YearSpan == 8

\* years around the epoch, and years on each side of every rule: year 0,
\* the UTCTime window 1950..2049, centuries that are and are not leap
\* years, the last four-digit year
Years ==
    {0, 1, 1600, 1900, 1950, 1951, 1999, 2000, 2016, 2017, 2038, 2048,
     2049, 2050, 2100, 2400, 9996, 9999}
        \cup (1968 .. (1968 + YearSpan))

\* the years a UTCTime can carry
UtcYears == {y \in Years : 1950 <= y /\ y <= 2049}

MonthVals == 0 .. 13
DayVals == {0, 1, 17, 28, 29, 30, 31, 32}
ClockVals ==
    {<<0, 0, 0>>, <<0, 0, 1>>, <<17, 12, 42>>, <<23, 59, 59>>,
     <<24, 0, 0>>, <<0, 60, 0>>, <<0, 0, 60>>}

Civil(y, m, d, t) ==
    [year |-> y, month |-> m, day |-> d,
     hours |-> t[1], minutes |-> t[2], seconds |-> t[3]]

\* the civil fields name a second of the calendar
ValidCivil(c) ==
    /\ c.month \in 1 .. 12
    /\ c.day \in 1 .. days_in_month(c.year, c.month)
    /\ c.hours \in 0 .. 23
    /\ c.minutes \in 0 .. 59
    /\ c.seconds \in 0 .. 59

TimeIdle ==
    /\ input = [tag |-> "None", value |-> <<>>]
    /\ civ = Civil(0, 0, 0, <<0, 0, 0>>)
    /\ tpc = "off"
    /\ parsed = NotRun
    /\ converted = NotRun
    /\ dim = 0

\* bytes that are not digits: the neighbours "/" and ":" of the digits in
\* ASCII, " ", "a", and "Z"
NonDigits == {47, 58, 32, 97, 90}

\* A time element encoded from civil fields, valid or not: every field
\* combination ending in "Z"; the other endings on valid fields; a
\* well-formed time under another tag; a well-formed time cut short; and a
\* well-formed time with one of its digits replaced by another byte.
\* Day 0 of January 1970 is left out: time_from_ymdhms_utc would subtract
\* 1 from 0 there, and what that gives depends on the build.
TimeInit ==
    /\ \E tag \in {"UTCTime", "GeneralizedTime"} :
       \E y \in (IF tag = "UTCTime" THEN UtcYears ELSE Years) :
       \E m \in MonthVals, d \in DayVals, t \in ClockVals :
          /\ civ = Civil(y, m, d, t)
          /\ ~(y = UNIX_EPOCH_YEAR /\ m = 1 /\ d = 0)
          /\ \/ input = [tag |-> tag, value |-> Content(tag, civ, Zulu)]
             \/ /\ ValidCivil(civ)
                /\ m = 4 /\ d = 17
                /\ t = <<17, 12, 42>>
                /\ \E n \in 0 .. Len(Content(tag, civ, Zulu)) - 1 :
                      input = [tag |-> tag,
                               value |-> SubSeq(Content(tag, civ, Zulu), 1, n)]
             \/ /\ ValidCivil(civ)
                /\ m = 4 /\ d = 17
                /\ t = <<17, 12, 42>>
                /\ \E p \in 1 .. Len(Content(tag, civ, Zulu)) - 1 :
                   \E b \in NonDigits :
                      input = [tag |-> tag,
                               value |-> [Content(tag, civ, Zulu)
                                            EXCEPT ![p] = b]]
             \/ /\ ValidCivil(civ)
                /\ t = <<23, 59, 59>>
                /\ \E sfx \in OtherSuffixes :
                      input = [tag |-> tag, value |-> Content(tag, civ, sfx)]
             \/ /\ ValidCivil(civ)
                /\ t = <<17, 12, 42>>
                /\ tag = "GeneralizedTime"
                /\ input = [tag |-> "Sequence", value |-> Content(tag, civ, Zulu)]
    /\ tpc = "start"
    /\ parsed = NotRun
    /\ converted = NotRun
    /\ dim = 0

\* Time::from_der on the element
FromDer ==
    /\ tpc = "start"
    /\ parsed' \in from_der(input)
    /\ tpc' = "parsed"
    /\ UNCHANGED <<input, civ, converted, dim, errVars, chainVars, calVars>>

\* time_from_ymdhms_utc on the civil fields
TimeFromYmdhmsUtc ==
    /\ tpc = "parsed"
    /\ converted' = time_from_ymdhms_utc(civ.year, civ.month, civ.day,
                                         civ.hours, civ.minutes, civ.seconds)
    /\ tpc' = "converted"
    /\ UNCHANGED <<input, civ, parsed, dim, errVars, chainVars, calVars>>

\* days_in_month on the year and month
DaysInMonth ==
    /\ tpc = "converted"
    /\ dim' = days_in_month(civ.year, civ.month)
    /\ tpc' = "done"
    /\ UNCHANGED <<input, civ, parsed, converted, errVars, chainVars, calVars>>

---------------------------------------------------------------------------
(***************************************************************************)
(* end_entity.rs: EndEntityCert::verify_for_usage, and the path search     *)
(* verify_cert::build_chain it delegates to.  build_chain is modelled from *)
(* the design of the path builder: depth-first from the end-entity, trust  *)
(* anchors before intermediates, one call-wide signature budget, and the   *)
(* errors of the branches combined with most_specific.                     *)
(***************************************************************************)

\* A certificate as the search sees it.  signer is the key that made its
\* signature, path_len is {} or {n}, permitted is the set of names its name
\* constraints permit ({"*"}: unconstrained), revoked says whether a CRL of
\* its issuer lists it.
CaCert(subject, issuer, spki, signer) ==
    [subject |-> subject, issuer |-> issuer, spki |-> spki, signer |-> signer,
     alg |-> "ECDSA_P256_SHA256", is_ca |-> TRUE,
     not_before |-> 1, not_after |-> 8, path_len |-> {},
     permitted |-> {"*"}, eku |-> {}, dns_names |-> {}, revoked |-> FALSE]

\* the end-entity: issued by A for example.com, for server authentication
LeafCert ==
    [subject |-> "EE", issuer |-> "A", spki |-> "kEE", signer |-> "kA",
     alg |-> "ECDSA_P256_SHA256", is_ca |-> FALSE,
     not_before |-> 1, not_after |-> 8, path_len |-> {},
     permitted |-> {"*"}, eku |-> {"serverAuth"},
     dns_names |-> {"example.com"}, revoked |-> FALSE]

\* EndEntityCert { inner }
EndEntityCert(cert) == [inner |-> cert]

EndEntities ==
    {LeafCert,
     [LeafCert EXCEPT !.eku = {"clientAuth"}],
     [LeafCert EXCEPT !.not_after = 4],
     [LeafCert EXCEPT !.is_ca = TRUE],
     [LeafCert EXCEPT !.revoked = TRUE]}

\* the intermediates a peer may send: A issued by the root R; A and B
\* cross-signing each other; B issued by R with pathLenConstraint 0; and
\* copies of the first that are expired, carry a signature R did not make,
\* or are name-constrained away from example.com
IntermediatePool ==
    {CaCert("A", "R", "kA", "kR"),
     CaCert("A", "B", "kA", "kB"),
     CaCert("B", "A", "kB", "kA"),
     [CaCert("B", "R", "kB", "kR") EXCEPT !.path_len = {0}],
     [CaCert("A", "R", "kA", "kR") EXCEPT !.not_after = 4],
     CaCert("A", "R", "kA", "kX"),
     [CaCert("A", "R", "kA", "kR") EXCEPT !.permitted = {"other.test"}]}

\* TrustAnchor { subject, spki, name_constraints }
TrustAnchor(subject, spki) ==
    [subject |-> subject, spki |-> spki, permitted |-> {"*"}]

\* the trust anchor lists: the root R; a second anchor named R with an RSA
\* key before it; an anchor for B; none
AnchorLists ==
    {<<TrustAnchor("R", "kR")>>,
     <<TrustAnchor("R", "rsaR"), TrustAnchor("R", "kR")>>,
     <<TrustAnchor("B", "kB")>>,
     <<>>}

\* the key family of an SPKI
KeyFamily(spki) == IF spki = "rsaR" THEN "RSA" ELSE "ECDSA"

\* the key family a signature algorithm needs
AlgFamily(alg) == IF alg = "ECDSA_P256_SHA256" THEN "ECDSA" ELSE "RSA"

\* the most intermediates of the pool a call is given
MaxIntermediates == 3

\* the signature budget of a call, small enough to be exhausted
SignatureBudget == 3

\* the signature budget the design suggests, which no call here exhausts
AmpleBudget == 100

Range(s) == {s[i] : i \in 1 .. Len(s)}

\* the sequences of at most n distinct members of S
RECURSIVE Arrangements(_, _)
Arrangements(S, n) ==
    IF n = 0 THEN {<<>>}
    ELSE LET shorter == Arrangements(S, n - 1)
         IN  shorter \cup
             UNION {{Append(s, x) : x \in S \ Range(s)} :
                        s \in {t \in shorter : Len(t) = n - 1}}

\* verify_for_usage ignoring the intermediates it is given
verify_for_usage_no_intermediates(self, supported_sig_algs, trust_anchors, intermediate_certs, time, usage, revocation) ==
    [opts |-> [eku |-> usage,
               supported_sig_algs |-> supported_sig_algs,
               trust_anchors |-> trust_anchors,
               intermediate_certs |-> <<>>,
               revocation |-> revocation],
     cert |-> self.inner,
     time |-> time]

\* EndEntityCert::verify_for_usage: the ChainOptions, certificate and time
\* it hands to verify_cert::build_chain, whose result it returns
verify_for_usage(self, supported_sig_algs, trust_anchors, intermediate_certs, time, usage, revocation) ==
    [opts |-> [eku |-> usage,
               supported_sig_algs |-> supported_sig_algs,
               trust_anchors |-> trust_anchors,
               intermediate_certs |-> intermediate_certs,
               revocation |-> revocation],
     cert |-> self.inner,
     time |-> time]

NoChain ==
    [opts |-> [eku |-> "none", supported_sig_algs |-> {}, trust_anchors |-> <<>>,
               intermediate_certs |-> <<>>, revocation |-> "None"],
     cert |-> LeafCert,
     time |-> 0]

\* the certificate a frame's tip names: 0 is the end-entity, i the i-th
\* intermediate
CertAt(i) == IF i = 0 THEN chain.cert ELSE chain.opts.intermediate_certs[i]

\* a frame of the search: the tip, what is tried next, and the most
\* specific error of the candidates tried so far
Frame(tip) ==
    [tip |-> tip, phase |-> "check", next |-> 1, err |-> E("UnknownIssuer")]

\* the certificates of the current path, end-entity first
Path == [i \in 1 .. Len(stack) |-> stack[i].tip]

\* the per-link checks on a certificate with depth certificates below it on
\* the path: NoError, or the error of the first check that fails
per_link_checks(cert, depth, time) ==
    IF depth > 0 /\ ~cert.is_ca THEN E("EndEntityUsedAsCa")
    ELSE IF depth = 0 /\ cert.is_ca THEN E("CaUsedAsEndEntity")
    ELSE IF \E n \in cert.path_len : depth - 1 > n
        THEN E("PathLenConstraintViolated")
    ELSE IF time < cert.not_before THEN E("CertNotValidYet")
    ELSE IF time > cert.not_after THEN E("CertExpired")
    ELSE NoError

\* the verification of cert's signature with an issuer's SPKI
verify_signature(cert, spki, supported_sig_algs) ==
    IF cert.alg \notin supported_sig_algs
        THEN E("UnsupportedSignatureAlgorithm")
    ELSE IF AlgFamily(cert.alg) # KeyFamily(spki)
        THEN E("UnsupportedSignatureAlgorithmForPublicKey")
    ELSE IF cert.signer # spki THEN E("InvalidSignatureForPublicKey")
    ELSE NoError

\* the per-path checks on a complete chain (tips, end-entity first) closed
\* by anchor: name constraints, required EKU, revocation
per_path_checks(tips, anchor, opts) ==
    LET ee == CertAt(tips[1])
        constrainers ==
            {CertAt(tips[i]).permitted : i \in 2 .. Len(tips)}
                \cup {anchor.permitted}
        checked ==
            CASE opts.revocation = "CheckAll" -> 1 .. Len(tips)
              [] opts.revocation = "CheckEndEntity" -> {1}
              [] OTHER -> {}
    IN  IF \E permitted \in constrainers :
              "*" \notin permitted /\ ~(ee.dns_names \subseteq permitted)
            THEN E("NameConstraintViolation")
        ELSE IF opts.eku \notin ee.eku THEN E("RequiredEkuNotFound")
        ELSE IF \E i \in checked : CertAt(tips[i]).revoked
            THEN E("CertRevoked")
        ELSE NoError

Top == stack[Len(stack)]

SetTop(f) == [stack EXCEPT ![Len(stack)] = f]

\* the search ends with r
Finish(r) ==
    /\ result' = r
    /\ stack' = <<>>
    /\ cpc' = "done"

\* the frame on top ends with error e: the caller combines it with its own
\* and goes on, or the call returns it
ReturnError(e) ==
    IF Len(stack) = 1
    THEN /\ Finish(Err(e))
         /\ UNCHANGED budget
    ELSE LET below == stack[Len(stack) - 1]
         IN  /\ stack' = [SubSeq(stack, 1, Len(stack) - 1)
                            EXCEPT ![Len(stack) - 1].err =
                                most_specific(below.err, e)]
             /\ UNCHANGED <<budget, result, cpc>>

ChainIdle ==
    /\ call = [ee |-> EndEntityCert(LeafCert), supported_sig_algs |-> {},
               trust_anchors |-> <<>>, intermediate_certs |-> <<>>,
               time |-> 0, usage |-> "none", revocation |-> "None",
               budget |-> 0]
    /\ chain = NoChain
    /\ stack = <<>>
    /\ budget = 0
    /\ result = NotRun
    /\ cpc = "off"

\* the issuing CA and a copy of it that the root's CRL lists
RevocationPool ==
    {CaCert("A", "R", "kA", "kR"),
     [CaCert("A", "R", "kA", "kR") EXCEPT !.revoked = TRUE]}

\* as many certificates of the issuing CA as a call has signature checks,
\* all expired, each with a validity period of its own
ExpiredCopies ==
    [i \in 1 .. AmpleBudget |->
        [CaCert("A", "R", "kA", "kR") EXCEPT !.not_before = 1 - i,
                                              !.not_after = 4]]

\* The calls: an end-entity, intermediates of the pool and trust anchors
\* in some order, and the rest of the arguments; calls that check
\* revocation, of the end-entity or of all, with the issuing CA and its
\* revoked copy; and calls that are given the expired copies of the issuing
\* CA before or after the issuing CA itself.
ChainInit ==
    /\ \/ \E ee \in EndEntities, anchors \in AnchorLists,
             inters \in Arrangements(IntermediatePool, MaxIntermediates),
             revocation \in {"None", "CheckEndEntity", "CheckAll"},
             b \in {SignatureBudget, AmpleBudget} :
             /\ revocation # "None" => ee.revoked
             /\ call = [ee |-> EndEntityCert(ee),
                        supported_sig_algs |-> {"ECDSA_P256_SHA256"},
                        trust_anchors |-> anchors,
                        intermediate_certs |-> inters,
                        time |-> 5, usage |-> "serverAuth",
                        revocation |-> revocation,
                        budget |-> b]
       \/ \E ee \in {LeafCert, [LeafCert EXCEPT !.revoked = TRUE]},
             inters \in Arrangements(RevocationPool, 2),
             revocation \in {"CheckEndEntity", "CheckAll"},
             b \in {SignatureBudget, AmpleBudget} :
             call = [ee |-> EndEntityCert(ee),
                     supported_sig_algs |-> {"ECDSA_P256_SHA256"},
                     trust_anchors |-> <<TrustAnchor("R", "kR")>>,
                     intermediate_certs |-> inters,
                     time |-> 5, usage |-> "serverAuth",
                     revocation |-> revocation,
                     budget |-> b]
       \/ \E inters \in {ExpiredCopies \o <<CaCert("A", "R", "kA", "kR")>>,
                          <<CaCert("A", "R", "kA", "kR")>> \o ExpiredCopies} :
             call = [ee |-> EndEntityCert(LeafCert),
                     supported_sig_algs |-> {"ECDSA_P256_SHA256"},
                     trust_anchors |-> <<TrustAnchor("R", "kR")>>,
                     intermediate_certs |-> inters,
                     time |-> 5, usage |-> "serverAuth",
                     revocation |-> "None",
                     budget |-> AmpleBudget]
    /\ chain = NoChain
    /\ stack = <<>>
    /\ budget = 0
    /\ result = NotRun
    /\ cpc = "start"

\* verify_for_usage is called: it puts its arguments into ChainOptions and
\* calls build_chain on them, the end-entity's certificate and the time
VerifyForUsage ==
    /\ cpc = "start"
    /\ chain' = verify_for_usage(call.ee, call.supported_sig_algs,
                                 call.trust_anchors, call.intermediate_certs,
                                 call.time, call.usage, call.revocation)
    /\ cpc' = "build_chain"
    /\ UNCHANGED <<call, stack, budget, result, timeVars, errVars, calVars>>

\* build_chain begins: the search starts at the end-entity, with the
\* signature checks the implementation allows one call
BuildChain ==
    /\ cpc = "build_chain"
    /\ stack' = <<Frame(0)>>
    /\ budget' = call.budget
    /\ cpc' = "search"
    /\ UNCHANGED <<call, chain, result, timeVars, errVars, calVars>>

\* the per-link checks on the new tip, before any signature is verified
CheckTip ==
    /\ cpc = "search"
    /\ Top.phase = "check"
    /\ LET e == per_link_checks(CertAt(Top.tip), Len(stack) - 1, chain.time)
       IN  IF e = NoError
           THEN /\ stack' = SetTop([Top EXCEPT !.phase = "anchors"])
                /\ UNCHANGED <<budget, result, cpc>>
           ELSE ReturnError(e)
    /\ UNCHANGED <<call, chain, timeVars, errVars, calVars>>

\* TryAnchor closing the path as soon as the signature verifies, without
\* the per-path checks
TryAnchor_no_path_checks ==
    /\ cpc = "search"
    /\ Top.phase = "anchors"
    /\ Top.next <= Len(chain.opts.trust_anchors)
    /\ LET anchor == chain.opts.trust_anchors[Top.next]
           tip == CertAt(Top.tip)
           sig == verify_signature(tip, anchor.spki, chain.opts.supported_sig_algs)
           e == sig
       IN  IF anchor.subject # tip.issuer
           THEN /\ stack' = SetTop([Top EXCEPT !.next = @ + 1])
                /\ UNCHANGED <<budget, result, cpc>>
           ELSE IF budget = 0
           THEN /\ Finish(Err(E("MaximumSignatureChecksExceeded")))
                /\ UNCHANGED budget
           ELSE IF e = NoError
           THEN /\ Finish(Ok(NoTime))
                /\ budget' = budget - 1
           ELSE /\ stack' = SetTop([Top EXCEPT !.next = @ + 1,
                                               !.err = most_specific(@, e)])
                /\ budget' = budget - 1
                /\ UNCHANGED <<result, cpc>>
    /\ UNCHANGED <<call, chain, timeVars, errVars, calVars>>

\* step 1: the next trust anchor.  One whose subject is the tip's issuer is
\* tried: the tip's signature is verified with its SPKI, which takes one
\* check from the budget, and the per-path checks are run on the chain.
TryAnchor ==
    /\ cpc = "search"
    /\ Top.phase = "anchors"
    /\ Top.next <= Len(chain.opts.trust_anchors)
    /\ LET anchor == chain.opts.trust_anchors[Top.next]
           tip == CertAt(Top.tip)
           sig == verify_signature(tip, anchor.spki, chain.opts.supported_sig_algs)
           e == IF sig # NoError THEN sig
                ELSE per_path_checks(Path, anchor, chain.opts)
       IN  IF anchor.subject # tip.issuer
           THEN /\ stack' = SetTop([Top EXCEPT !.next = @ + 1])
                /\ UNCHANGED <<budget, result, cpc>>
           ELSE IF budget = 0
           THEN /\ Finish(Err(E("MaximumSignatureChecksExceeded")))
                /\ UNCHANGED budget
           ELSE IF e = NoError
           THEN /\ Finish(Ok(NoTime))
                /\ budget' = budget - 1
           ELSE /\ stack' = SetTop([Top EXCEPT !.next = @ + 1,
                                               !.err = most_specific(@, e)])
                /\ budget' = budget - 1
                /\ UNCHANGED <<result, cpc>>
    /\ UNCHANGED <<call, chain, timeVars, errVars, calVars>>

\* no trust anchor closed the path: on to the intermediates
AnchorsTried ==
    /\ cpc = "search"
    /\ Top.phase = "anchors"
    /\ Top.next > Len(chain.opts.trust_anchors)
    /\ stack' = SetTop([Top EXCEPT !.phase = "intermediates", !.next = 1])
    /\ UNCHANGED <<call, chain, budget, result, cpc, timeVars, errVars, calVars>>

\* TryIntermediate trying every intermediate whose subject is the tip's
\* issuer, on the current path or not
TryIntermediate_revisit ==
    /\ cpc = "search"
    /\ Top.phase = "intermediates"
    /\ Top.next <= Len(chain.opts.intermediate_certs)
    /\ LET candidate == chain.opts.intermediate_certs[Top.next]
           tip == CertAt(Top.tip)
           sig == verify_signature(tip, candidate.spki,
                                   chain.opts.supported_sig_algs)
           tried == SetTop([Top EXCEPT !.next = @ + 1])
       IN  IF candidate.subject # tip.issuer
           THEN /\ stack' = tried
                /\ UNCHANGED <<budget, result, cpc>>
           ELSE IF budget = 0
           THEN /\ Finish(Err(E("MaximumSignatureChecksExceeded")))
                /\ UNCHANGED budget
           ELSE IF sig = NoError
           THEN /\ stack' = Append(tried, Frame(Top.next))
                /\ budget' = budget - 1
                /\ UNCHANGED <<result, cpc>>
           ELSE /\ stack' = SetTop([Top EXCEPT !.next = @ + 1,
                                               !.err = most_specific(@, sig)])
                /\ budget' = budget - 1
                /\ UNCHANGED <<result, cpc>>
    /\ UNCHANGED <<call, chain, timeVars, errVars, calVars>>

\* TryIntermediate treating an exhausted budget as the failure of one
\* candidate: the error is combined with the others and the search goes on
TryIntermediate_budget_per_branch ==
    /\ cpc = "search"
    /\ Top.phase = "intermediates"
    /\ Top.next <= Len(chain.opts.intermediate_certs)
    /\ LET candidate == chain.opts.intermediate_certs[Top.next]
           tip == CertAt(Top.tip)
           sig == verify_signature(tip, candidate.spki,
                                   chain.opts.supported_sig_algs)
           tried == SetTop([Top EXCEPT !.next = @ + 1])
       IN  IF candidate.subject # tip.issuer \/ Top.next \in Range(Path)
           THEN /\ stack' = tried
                /\ UNCHANGED <<budget, result, cpc>>
           ELSE IF budget = 0
           THEN /\ stack' = SetTop([Top EXCEPT
                            !.next = @ + 1,
                            !.err = most_specific(
                                @, E("MaximumSignatureChecksExceeded"))])
                /\ UNCHANGED <<budget, result, cpc>>
           ELSE IF sig = NoError
           THEN /\ stack' = Append(tried, Frame(Top.next))
                /\ budget' = budget - 1
                /\ UNCHANGED <<result, cpc>>
           ELSE /\ stack' = SetTop([Top EXCEPT !.next = @ + 1,
                                               !.err = most_specific(@, sig)])
                /\ budget' = budget - 1
                /\ UNCHANGED <<result, cpc>>
    /\ UNCHANGED <<call, chain, timeVars, errVars, calVars>>

\* step 2: the next intermediate.  One whose subject is the tip's issuer and
\* that is not on the current path is tried: the tip's signature is verified
\* with its SPKI, which takes one check from the budget, and the search
\* recurses with it as the new tip.
TryIntermediate ==
    /\ cpc = "search"
    /\ Top.phase = "intermediates"
    /\ Top.next <= Len(chain.opts.intermediate_certs)
    /\ LET candidate == chain.opts.intermediate_certs[Top.next]
           tip == CertAt(Top.tip)
           sig == verify_signature(tip, candidate.spki,
                                   chain.opts.supported_sig_algs)
           tried == SetTop([Top EXCEPT !.next = @ + 1])
       IN  IF candidate.subject # tip.issuer \/ Top.next \in Range(Path)
           THEN /\ stack' = tried
                /\ UNCHANGED <<budget, result, cpc>>
           ELSE IF budget = 0
           THEN /\ Finish(Err(E("MaximumSignatureChecksExceeded")))
                /\ UNCHANGED budget
           ELSE IF sig = NoError
           THEN /\ stack' = Append(tried, Frame(Top.next))
                /\ budget' = budget - 1
                /\ UNCHANGED <<result, cpc>>
           ELSE /\ stack' = SetTop([Top EXCEPT !.next = @ + 1,
                                               !.err = most_specific(@, sig)])
                /\ budget' = budget - 1
                /\ UNCHANGED <<result, cpc>>
    /\ UNCHANGED <<call, chain, timeVars, errVars, calVars>>

\* step 3: no candidate succeeded: the most specific error observed
NoCandidateLeft ==
    /\ cpc = "search"
    /\ Top.phase = "intermediates"
    /\ Top.next > Len(chain.opts.intermediate_certs)
    /\ ReturnError(Top.err)
    /\ UNCHANGED <<call, chain, timeVars, errVars, calVars>>

SuccIdle ==
    /\ moment = Civil(0, 0, 0, <<0, 0, 0>>)
    /\ successor = Civil(0, 0, 0, <<0, 0, 0>>)
    /\ other = Civil(0, 0, 0, <<0, 0, 0>>)
    /\ stamp = NotRun
    /\ succ_stamp = NotRun
    /\ other_stamp = NotRun
    /\ spc = "off"

YearsIdle ==
    /\ walk_year = 0
    /\ before_ad = 0
    /\ before = [ok |-> FALSE, days |-> 0]
    /\ before_last = [ok |-> FALSE, days |-> 0]
    /\ elapsed = 0
    /\ ypc = "off"

NextTime == FromDer \/ TimeFromYmdhmsUtc \/ DaysInMonth

InitTime == TimeInit /\ ErrIdle /\ ChainIdle /\ SuccIdle /\ YearsIdle

SpecTime == InitTime /\ [][NextTime]_vars

NextErr == MostSpecific

InitErr == ErrInit /\ TimeIdle /\ ChainIdle /\ SuccIdle /\ YearsIdle

SpecErr == InitErr /\ [][NextErr]_vars

NextChain ==
    \/ VerifyForUsage
    \/ BuildChain
    \/ CheckTip
    \/ TryAnchor
    \/ AnchorsTried
    \/ TryIntermediate
    \/ NoCandidateLeft

InitChain == ChainInit /\ TimeIdle /\ ErrIdle /\ SuccIdle /\ YearsIdle

SpecChain == InitChain /\ [][NextChain]_vars

\* The calls with the signature budget the design names.
InitChainClosure ==
    /\ InitChain
    /\ call.budget = AmpleBudget

SpecChainClosure == InitChainClosure /\ [][NextChain]_vars

\* verify_for_usage is an ordinary synchronous call: nothing suspends it,
\* so the search takes its next step for as long as it has one.  The calls
\* are those without revocation checking, for an end-entity that every
\* complete chain serves and for one that none serves (its EKU is not the
\* one asked for), so that the search goes through every path.
InitChainRuns ==
    /\ InitChain
    /\ call.revocation = "None"
    /\ call.ee.inner \in {LeafCert, [LeafCert EXCEPT !.eku = {"clientAuth"}]}

SpecChainRuns == InitChainRuns /\ [][NextChain]_vars /\ WF_vars(NextChain)

---------------------------------------------------------------------------
(***************************************************************************)
(* Properties of the time pipeline (SpecTime)                              *)
(***************************************************************************)

BadDerTime == Err(E("BadDerTime"))

IsTimeTag(tag) == tag \in {"UTCTime", "GeneralizedTime"}

\* the element is exactly the encoding of the civil fields, ending in "Z"
IsGeneralizedTimeOf(in, c) ==
    in = [tag |-> "GeneralizedTime", value |-> GeneralizedTimeContent(c, Zulu)]

IsUtcTimeOf(in, c) ==
    in = [tag |-> "UTCTime", value |-> UtcTimeContent(c, Zulu)]

\* C1: a year before 1970 is rejected with BadDerTime: by
\* time_from_ymdhms_utc whatever the other fields are, and by Time::from_der
\* for a UTCTime or GeneralizedTime that encodes such a year, whatever the
\* other fields and whatever follows the seconds.
C1_PreEpochRejected ==
    /\ (tpc \in {"converted", "done"} /\ civ.year < 1970)
            => converted = BadDerTime
    /\ (tpc # "start" /\ IsTimeTag(input.tag) /\ civ.year < 1970)
            => parsed = BadDerTime

\* C1 witness: the UTCTime 691231235959Z (year 1969) and the direct call
\* on 1969-12-31 23:59:59 have both been rejected.
C1_Witness ==
    /\ tpc = "done"
    /\ civ = Civil(1969, 12, 31, <<23, 59, 59>>)
    /\ IsUtcTimeOf(input, civ)
    /\ parsed = BadDerTime
    /\ converted = BadDerTime

\* C2: a GeneralizedTime YYYYMMDDHHMMSSZ of valid civil fields with year in
\* 1970..9999 parses to a Time, the one time_from_ymdhms_utc gives for the
\* fields; 20170417171242Z parses to Time(1492449162).
C2_GeneralizedTimeRoundTrip ==
    (/\ tpc = "done"
     /\ IsGeneralizedTimeOf(input, civ)
     /\ ValidCivil(civ)
     /\ civ.year \in 1970 .. 9999)
        => /\ parsed.tag = "Ok"
           /\ parsed = converted
           /\ civ = Civil(2017, 4, 17, <<17, 12, 42>>)
                => parsed = Ok(TimeOfSeconds(1492449162))

\* C2 witness: 99991231235959Z has been parsed to a Time.
C2_Witness ==
    /\ tpc = "done"
    /\ civ = Civil(9999, 12, 31, <<23, 59, 59>>)
    /\ IsGeneralizedTimeOf(input, civ)
    /\ parsed.tag = "Ok"
    /\ parsed = converted

\* C3 as stated: a UTCTime YYMMDDHHMMSSZ of valid civil fields with year in
\* 1950..2049 parses to a Time equal to time_from_ymdhms_utc of the fields.
C3_UtcTimeYieldsTime ==
    (/\ tpc = "done"
     /\ IsUtcTimeOf(input, civ)
     /\ ValidCivil(civ)
     /\ civ.year \in 1950 .. 2049)
        => /\ parsed.tag = "Ok"
           /\ parsed = converted

\* C3 amended: such a UTCTime parses to the result time_from_ymdhms_utc
\* gives for the fields, which is also the result of parsing the
\* GeneralizedTime of the same fields: a Time for years 1970..2049 and
\* BadDerTime for years 1950..1969.
C3_UtcTimeSameResult ==
    (/\ tpc = "done"
     /\ IsUtcTimeOf(input, civ)
     /\ ValidCivil(civ)
     /\ civ.year \in 1950 .. 2049)
        => /\ parsed = converted
           /\ from_der([tag |-> "GeneralizedTime",
                         value |-> GeneralizedTimeContent(civ, Zulu)])
                = {parsed}
           /\ civ.year >= 1970 => parsed.tag = "Ok"
           /\ civ.year < 1970 => parsed = BadDerTime

\* C3 witness: the UTCTime 480229235959Z (29 February 2048) has been parsed
\* to a Time.
C3_Witness ==
    /\ tpc = "done"
    /\ civ = Civil(2048, 2, 29, <<23, 59, 59>>)
    /\ IsUtcTimeOf(input, civ)
    /\ parsed.tag = "Ok"
    /\ parsed = converted

\* the Gregorian rule: divisible by 4 and not by 100, or divisible by 400
IsGregorianLeapYear(y) == (y % 4 = 0 /\ y % 100 # 0) \/ y % 400 = 0

\* the fixed table of month lengths, February aside
MonthTable(m) ==
    IF m \in {1, 3, 5, 7, 8, 10, 12} THEN 31 ELSE 30

\* C4: days_in_month(y, 2) is 29 exactly when y is a Gregorian leap year and
\* 28 otherwise; every other month has its table length whatever the year.
C4_DaysInMonth ==
    (tpc = "done" /\ civ.month \in 1 .. 12)
        => /\ civ.month = 2
                => /\ dim = 29 <=> IsGregorianLeapYear(civ.year)
                   /\ dim = 28 <=> ~IsGregorianLeapYear(civ.year)
           /\ civ.month # 2 => dim = MonthTable(civ.month)

\* C4 witness: days_in_month(2000, 2) has been computed as 29.
C4_Witness ==
    /\ tpc = "done"
    /\ civ.year = 2000
    /\ civ.month = 2
    /\ dim = 29

---------------------------------------------------------------------------
(***************************************************************************)
(* Properties of the error ranking (SpecErr)                               *)
(***************************************************************************)

Max(x, y) == IF x >= y THEN x ELSE y

\* C5: most_specific(a, b) is one of a and b, and its rank is the larger of
\* the two ranks (error is most_specific(a, b), history is <<a, b>>).
C5_RankIsMax ==
    Len(history) = 2
        => /\ error \in {history[1], history[2]}
           /\ rank(error) = Max(rank(history[1]), rank(history[2]))

\* C5 witness: UnknownIssuer has been combined with CertExpired.
C5_Witness ==
    /\ history = <<E("UnknownIssuer"), E("CertExpired")>>
    /\ error = E("CertExpired")

\* C6 as stated: most_specific(a, b) = most_specific(b, a) as error values
\* (flipped is most_specific(b, a)).
C6_Commutative ==
    Len(history) = 2 => error = flipped

\* C6 amended: the two orders give errors of the same rank, and the same
\* error when the ranks of a and b differ; when they are equal each order
\* returns its own first argument.
C6_CommutativeUpToRank ==
    Len(history) = 2
        => /\ rank(error) = rank(flipped)
           /\ rank(history[1]) # rank(history[2]) => error = flipped
           /\ rank(history[1]) = rank(history[2])
                => error = history[1] /\ flipped = history[2]

\* C6 witness: CertNotValidYet and CertExpired, of one rank, have been
\* combined in both orders and each order kept its first argument.
C6_Witness ==
    /\ history = <<E("CertNotValidYet"), E("CertExpired")>>
    /\ error = E("CertNotValidYet")
    /\ flipped = E("CertExpired")

\* C7: most_specific(most_specific(a, b), c) = most_specific(a,
\* most_specific(b, c)) as error values: the errors folded from the left
\* (error) and grouped from the right (regrouped) are the same error.
C7_Associative ==
    Len(history) >= 3 => error = regrouped

\* C7 witness: three errors, two of them distinct and of the top rank among
\* them, have been folded both ways to the first of the two.
C7_Witness ==
    /\ history = <<E("BadDer"), E("UnsupportedCertVersion"),
                   E("UnsupportedCriticalExtension")>>
    /\ error = E("UnsupportedCertVersion")
    /\ regrouped = E("UnsupportedCertVersion")

RankZeroKinds == {"MaximumSignatureChecksExceeded", "UnknownIssuer"}

Ranks(s) == {rank(s[i]) : i \in 1 .. Len(s)}

\* C8: only MaximumSignatureChecksExceeded and UnknownIssuer have rank 0
\* and every other kind has rank >= 1; combined with either of the two, in
\* either order, any other error e is the result; and a fold over errors of
\* which one has rank >= 1 never gives a rank-0 error, whatever the order
\* or grouping.
C8_RankZeroNeverMasks ==
    /\ \A i \in 1 .. Len(history) :
          /\ rank(history[i]) = 0 <=> history[i].kind \in RankZeroKinds
          /\ history[i].kind \notin RankZeroKinds => rank(history[i]) >= 1
    /\ \A i, j \in 1 .. 2 :
          (/\ Len(history) = 2
           /\ history[i].kind \in RankZeroKinds
           /\ history[j].kind \notin RankZeroKinds)
             => error = history[j] /\ flipped = history[j]
    /\ (\E r \in Ranks(history) : r >= 1)
          => rank(error) >= 1 /\ rank(flipped) >= 1 /\ rank(regrouped) >= 1

\* C8 witness: CertExpired between two rank-0 errors has been folded to
\* CertExpired.
C8_Witness ==
    /\ history = <<E("UnknownIssuer"), E("CertExpired"),
                   E("MaximumSignatureChecksExceeded")>>
    /\ error = E("CertExpired")
    /\ flipped = E("CertExpired")
    /\ regrouped = E("CertExpired")

\* the groups of the error taxonomy, in the order listed, each with the
\* band of ranks stated for it
Groups ==
    << [kinds |-> {"CertNotValidYet", "CertExpired", "CertNotValidForName"},
        lo |-> 28, hi |-> 29],
       [kinds |-> {"CertRevoked", "UnknownRevocationStatus"},
        lo |-> 27, hi |-> 27],
       [kinds |-> {"InvalidSignatureForPublicKey",
                   "InvalidCrlSignatureForPublicKey",
                   "SignatureAlgorithmMismatch"},
        lo |-> 25, hi |-> 26],
       [kinds |-> {"RequiredEkuNotFound", "NameConstraintViolation",
                   "PathLenConstraintViolated", "CaUsedAsEndEntity",
                   "EndEntityUsedAsCa", "IssuerNotCrlSigner"},
        lo |-> 20, hi |-> 24],
       [kinds |-> {"InvalidCertValidity", "InvalidNetworkMaskConstraint",
                   "InvalidSerialNumber", "InvalidCrlNumber"},
        lo |-> 16, hi |-> 19],
       [kinds |-> {"UnsupportedCertVersion", "UnsupportedCriticalExtension",
                   "UnsupportedCrlIssuingDistributionPoint",
                   "UnsupportedCrlVersion", "UnsupportedDeltaCrl",
                   "UnsupportedIndirectCrl", "UnsupportedRevocationReason",
                   "UnsupportedRevocationReasonsPartitioning",
                   "UnsupportedCrlSignatureAlgorithm",
                   "UnsupportedSignatureAlgorithm",
                   "UnsupportedCrlSignatureAlgorithmForPublicKey",
                   "UnsupportedSignatureAlgorithmForPublicKey"},
        lo |-> 7, hi |-> 15],
       [kinds |-> {"MalformedDnsIdentifier", "MalformedNameConstraint",
                   "MalformedExtensions", "TrailingData",
                   "ExtensionValueInvalid"},
        lo |-> 3, hi |-> 6],
       [kinds |-> {"BadDerTime", "BadDer"},
        lo |-> 1, hi |-> 2] >>

\* the groups an error kind is listed in
GroupsOf(e) == {g \in 1 .. Len(Groups) : e.kind \in Groups[g].kinds}

\* C9: the rank of every error of a listed group lies in the group's band,
\* and an error of a group listed earlier wins most_specific, in either
\* order, against an error of a group listed later.
C9_RankBands ==
    /\ \A i \in 1 .. Len(history) :
          \A g \in GroupsOf(history[i]) :
              /\ Groups[g].lo <= rank(history[i])
              /\ rank(history[i]) <= Groups[g].hi
    /\ \A i, j \in 1 .. 2 :
          Len(history) = 2 =>
              \A g \in GroupsOf(history[i]), h \in GroupsOf(history[j]) :
                  g < h => error = history[i] /\ flipped = history[i]

\* C9 witness: TrailingData(Time), of the malformed-data group, has been
\* combined with IssuerNotCrlSigner, of the policy group, which won.
C9_Witness ==
    /\ history = <<TrailingData("Time"), E("IssuerNotCrlSigner")>>
    /\ error = E("IssuerNotCrlSigner")
    /\ flipped = E("IssuerNotCrlSigner")

---------------------------------------------------------------------------
(***************************************************************************)
(* Properties of verify_for_usage (SpecChain)                              *)
(***************************************************************************)

\* the certificates of the chain that takes the intermediates numbered s,
\* in that order, above the end-entity
ChainCerts(s) ==
    <<call.ee.inner>> \o [i \in 1 .. Len(s) |-> call.intermediate_certs[s[i]]]

Permits(permitted, names) == "*" \in permitted \/ names \subseteq permitted

\* the chain through the intermediates numbered s up to anchor satisfies
\* every check: each certificate names the next one (the last names the
\* anchor) as issuer and carries a supported signature made by its key; the
\* end-entity is no CA and every other certificate is; no path length
\* constraint is exceeded; every certificate is valid at the time; the name
\* constraints of the CAs and the anchor permit the end-entity's names; the
\* end-entity has the required EKU; no certificate checked for revocation
\* is revoked.
IsValidChain(s, anchor) ==
    LET certs == ChainCerts(s)
        n == Len(certs)
        issuer(i) ==
            IF i < n
            THEN [subject |-> certs[i + 1].subject, spki |-> certs[i + 1].spki]
            ELSE [subject |-> anchor.subject, spki |-> anchor.spki]
    IN  /\ \A i \in 1 .. n :
              /\ certs[i].issuer = issuer(i).subject
              /\ certs[i].alg \in call.supported_sig_algs
              /\ AlgFamily(certs[i].alg) = KeyFamily(issuer(i).spki)
              /\ certs[i].signer = issuer(i).spki
              /\ certs[i].is_ca <=> i > 1
              /\ \A limit \in certs[i].path_len : i - 2 <= limit
              /\ certs[i].not_before <= call.time
              /\ call.time <= certs[i].not_after
        /\ \A i \in 2 .. n : Permits(certs[i].permitted, certs[1].dns_names)
        /\ Permits(anchor.permitted, certs[1].dns_names)
        /\ call.usage \in certs[1].eku
        /\ call.revocation = "CheckEndEntity" => ~certs[1].revoked
        /\ call.revocation = "CheckAll" => \A i \in 1 .. n : ~certs[i].revoked

\* the intermediates that are valid at the time of the call; a valid chain
\* holds no other
Current ==
    {i \in 1 .. Len(call.intermediate_certs) :
        /\ call.intermediate_certs[i].not_before <= call.time
        /\ call.time <= call.intermediate_certs[i].not_after}

\* some ordering of a subset of the intermediates forms a valid chain from
\* the end-entity to some trust anchor
ValidChainExists ==
    \E s \in Arrangements(Current, Cardinality(Current)) :
        \E k \in 1 .. Len(call.trust_anchors) :
            IsValidChain(s, call.trust_anchors[k])

BudgetExceeded == Err(E("MaximumSignatureChecksExceeded"))

\* C10 as stated: verify_for_usage returns Ok if and only if a valid chain
\* exists, and a non-success error when none exists.
C10_OkIffValidChain ==
    cpc = "done"
        => /\ result.tag = "Ok" <=> ValidChainExists
           /\ ~ValidChainExists => result.tag = "Err"

\* C10 amended: verify_for_usage returns Ok only if a valid chain exists
\* and a non-success error when none exists; when one exists it returns Ok,
\* or else MaximumSignatureChecksExceeded with every signature check of the
\* call spent.
C10_OkIffValidChainWithinBudget ==
    cpc = "done"
        => /\ result.tag = "Ok" => ValidChainExists
           /\ ~ValidChainExists => result.tag = "Err"
           /\ (ValidChainExists /\ result.tag # "Ok")
                => /\ result = BudgetExceeded
                   /\ budget = 0

\* C10 witness: with a forged and an expired copy of the issuing CA ahead
\* of the good one, and an ample budget, the call found the chain through
\* the third intermediate.
C10_Witness ==
    /\ cpc = "done"
    /\ result.tag = "Ok"
    /\ call.budget = AmpleBudget
    /\ call.trust_anchors = <<TrustAnchor("R", "kR")>>
    /\ call.intermediate_certs =
          <<CaCert("A", "R", "kA", "kX"),
            [CaCert("A", "R", "kA", "kR") EXCEPT !.not_after = 4],
            CaCert("A", "R", "kA", "kR")>>
    /\ IsValidChain(<<3>>, call.trust_anchors[1])

\* the next step of the search verifies a signature: the tip's issuer is the
\* subject of the trust anchor, or of the intermediate not yet on the path,
\* that is tried next
VerificationDue ==
    /\ cpc = "search"
    /\ \/ /\ Top.phase = "anchors"
          /\ Top.next <= Len(chain.opts.trust_anchors)
          /\ chain.opts.trust_anchors[Top.next].subject = CertAt(Top.tip).issuer
       \/ /\ Top.phase = "intermediates"
          /\ Top.next <= Len(chain.opts.intermediate_certs)
          /\ chain.opts.intermediate_certs[Top.next].subject
                = CertAt(Top.tip).issuer
          /\ Top.next \notin Range(Path)

\* one step of the search, as the budget sees it
BudgetStep ==
    cpc = "search"
        => IF VerificationDue
           THEN IF budget = 0
                THEN /\ cpc' = "done"
                     /\ result' = BudgetExceeded
                     /\ stack' = <<>>
                ELSE budget' = budget - 1
           ELSE budget' = budget

\* C11: one budget serves the whole call: it starts at the call's budget,
\* every signature verification takes one from it and nothing else changes
\* it; a verification that is due when the budget is 0 ends the search at
\* once, no further candidate is tried, and the call returns exactly
\* MaximumSignatureChecksExceeded, whatever errors the frames of the search
\* hold from the branches explored before.
C11_SignatureBudget ==
    /\ [](cpc \in {"search", "done"} => budget \in 0 .. call.budget)
    /\ [](result = BudgetExceeded => cpc = "done" /\ budget = 0)
    /\ [][BudgetStep]_vars

\* C11 witness: with an expired and a forged copy of the issuing CA ahead of
\* the good one and a budget of three, the first branch failed with
\* CertExpired, the second with InvalidSignatureForPublicKey at the trust
\* anchor, the budget was spent, and the call returned
\* MaximumSignatureChecksExceeded instead of trying the third.
C11_Witness ==
    /\ cpc = "done"
    /\ result = BudgetExceeded
    /\ budget = 0
    /\ call.budget = SignatureBudget
    /\ call.ee.inner = LeafCert
    /\ call.trust_anchors = <<TrustAnchor("R", "kR")>>
    /\ call.intermediate_certs =
          <<[CaCert("A", "R", "kA", "kR") EXCEPT !.not_after = 4],
            CaCert("A", "R", "kA", "kX"),
            CaCert("A", "R", "kA", "kR")>>
    /\ per_link_checks(call.intermediate_certs[1], 1, call.time)
          = E("CertExpired")
    /\ verify_signature(call.intermediate_certs[2], "kR",
                        call.supported_sig_algs)
          = E("InvalidSignatureForPublicKey")
    /\ rank(E("CertExpired")) > rank(E("MaximumSignatureChecksExceeded"))

\* the intermediates on the current path, as positions in the call's list
PathIntermediates == [i \in 1 .. Len(stack) - 1 |-> stack[i + 1].tip]

\* C12: in every state of the search the current path starts at the
\* end-entity and holds each intermediate at most once, so it is never
\* longer than the list of intermediates; and every call returns, whatever
\* the pool holds, cross-signed certificates included.
C12_NoRevisit ==
    /\ [](cpc = "search"
            => /\ stack[1].tip = 0
               /\ \A i \in 1 .. Len(PathIntermediates) :
                      PathIntermediates[i]
                          \in 1 .. Len(chain.opts.intermediate_certs)
               /\ \A i, j \in 1 .. Len(PathIntermediates) :
                      i # j => PathIntermediates[i] # PathIntermediates[j]
               /\ Len(PathIntermediates)
                      <= Len(chain.opts.intermediate_certs))
    /\ <>(cpc = "done")

\* C12 witness: A and B have certified each other.  The path is the
\* end-entity, A issued by B, B issued by A; the tip's issuer is A again,
\* and the search has passed over the copy of A that is on the path.
C12_Witness ==
    /\ cpc = "search"
    /\ Len(chain.opts.intermediate_certs) >= 2
    /\ chain.opts.intermediate_certs[1] = CaCert("A", "B", "kA", "kB")
    /\ chain.opts.intermediate_certs[2] = CaCert("B", "A", "kB", "kA")
    /\ Path = <<0, 1, 2>>
    /\ Top.phase = "intermediates"
    /\ CertAt(Top.tip).issuer = chain.opts.intermediate_certs[1].subject
    /\ Top.next = 2
    /\ budget > 0

---------------------------------------------------------------------------
(***************************************************************************)
(* time.rs: time_from_ymdhms_utc along the calendar (SpecSuccessor)        *)
(***************************************************************************)

\* the length of month m of year y in the Gregorian calendar
MonthLength(y, m) ==
    IF m = 2 THEN (IF IsGregorianLeapYear(y) THEN 29 ELSE 28)
    ELSE MonthTable(m)

\* the civil fields of the second after c
CivilSuccessor(c) ==
    IF c.seconds < 59 THEN [c EXCEPT !.seconds = @ + 1]
    ELSE IF c.minutes < 59 THEN [c EXCEPT !.minutes = @ + 1, !.seconds = 0]
    ELSE IF c.hours < 23
        THEN [c EXCEPT !.hours = @ + 1, !.minutes = 0, !.seconds = 0]
    ELSE IF c.day < MonthLength(c.year, c.month)
        THEN Civil(c.year, c.month, c.day + 1, <<0, 0, 0>>)
    ELSE IF c.month < 12 THEN Civil(c.year, c.month + 1, 1, <<0, 0, 0>>)
    ELSE Civil(c.year + 1, 1, 1, <<0, 0, 0>>)

\* seconds of the calendar from 1970 on: the first and the last day of
\* every month and the days around the end of February, at midnight, in
\* the afternoon, and at the last second of a minute, an hour and a day
Moments ==
    {Civil(y, m, d, t) :
        y \in {x \in Years : x >= UNIX_EPOCH_YEAR}, m \in 1 .. 12,
        d \in {1, 17, 28, 29, 30, 31},
        t \in {<<0, 0, 0>>, <<17, 12, 42>>, <<17, 12, 59>>,
               <<17, 59, 59>>, <<23, 59, 59>>}}

\* the seconds each of them is compared with
Landmarks ==
    {Civil(1970, 1, 1, <<0, 0, 0>>), Civil(1970, 1, 1, <<0, 0, 1>>),
     Civil(1972, 2, 29, <<23, 59, 59>>), Civil(1972, 3, 1, <<0, 0, 0>>),
     Civil(2000, 2, 29, <<17, 12, 42>>), Civil(2016, 12, 31, <<23, 59, 59>>),
     Civil(2017, 1, 1, <<0, 0, 0>>), Civil(9999, 12, 31, <<23, 59, 59>>)}

SuccInit ==
    /\ moment \in {c \in Moments : c.day <= MonthLength(c.year, c.month)}
    /\ successor = CivilSuccessor(moment)
    /\ other \in Landmarks
    /\ stamp = NotRun
    /\ succ_stamp = NotRun
    /\ other_stamp = NotRun
    /\ spc = "start"

\* time_from_ymdhms_utc on the moment
TimeOfMoment ==
    /\ spc = "start"
    /\ stamp' = time_from_ymdhms_utc(moment.year, moment.month, moment.day,
                                     moment.hours, moment.minutes,
                                     moment.seconds)
    /\ spc' = "moment"
    /\ UNCHANGED <<moment, successor, other, succ_stamp, other_stamp,
                   yearVars, timeVars, errVars, chainVars>>

\* time_from_ymdhms_utc on the second after it
TimeOfSuccessor ==
    /\ spc = "moment"
    /\ succ_stamp' = time_from_ymdhms_utc(successor.year, successor.month,
                                          successor.day, successor.hours,
                                          successor.minutes, successor.seconds)
    /\ spc' = "successor"
    /\ UNCHANGED <<moment, successor, other, stamp, other_stamp,
                   yearVars, timeVars, errVars, chainVars>>

\* time_from_ymdhms_utc on the other second
TimeOfOther ==
    /\ spc = "successor"
    /\ other_stamp' = time_from_ymdhms_utc(other.year, other.month, other.day,
                                           other.hours, other.minutes,
                                           other.seconds)
    /\ spc' = "done"
    /\ UNCHANGED <<moment, successor, other, stamp, succ_stamp,
                   yearVars, timeVars, errVars, chainVars>>

NextSuccessor == TimeOfMoment \/ TimeOfSuccessor \/ TimeOfOther

InitSuccessor == SuccInit /\ YearsIdle /\ TimeIdle /\ ErrIdle /\ ChainIdle

SpecSuccessor == InitSuccessor /\ [][NextSuccessor]_vars

\* the order of civil fields: (y, m, d, H, M, S) compared field by field
CivilLess(a, b) ==
    LET fa == <<a.year, a.month, a.day, a.hours, a.minutes, a.seconds>>
        fb == <<b.year, b.month, b.day, b.hours, b.minutes, b.seconds>>
    IN  \E i \in 1 .. 6 :
            /\ fa[i] < fb[i]
            /\ \A j \in 1 .. i - 1 : fa[j] = fb[j]

\* the order of Times
TimeLess(a, b) ==
    a.days < b.days \/ (a.days = b.days /\ a.secs < b.secs)

\* the Time one second after t
OneSecondAfter(t) ==
    IF t.secs + 1 < SecondsPerDay
    THEN [days |-> t.days, secs |-> t.secs + 1]
    ELSE [days |-> t.days + 1, secs |-> 0]

\* C13: time_from_ymdhms_utc(1970, 1, 1, 0, 0, 0) is Time(0); the Time of
\* the second after a valid civil timestamp from 1970 on is the Time of
\* that timestamp plus one, across the end of a minute, an hour, a day, a
\* month (28 and 29 February included) and a year; and of two valid
\* timestamps the one that comes first in the order of (y, m, d, H, M, S)
\* has the smaller Time, so different timestamps have different Times.
C13_CivilSuccessor ==
    /\ (spc # "start" /\ moment = Civil(1970, 1, 1, <<0, 0, 0>>))
            => stamp = Ok(TimeOfSeconds(0))
    /\ spc \in {"successor", "done"}
            => /\ stamp.tag = "Ok"
               /\ succ_stamp = Ok(OneSecondAfter(stamp.time))
    /\ spc = "done"
            => /\ other_stamp.tag = "Ok"
               /\ CivilLess(moment, other)
                    => TimeLess(stamp.time, other_stamp.time)
               /\ CivilLess(other, moment)
                    => TimeLess(other_stamp.time, stamp.time)
               /\ moment # other => stamp # other_stamp

\* C13 witness: 2016-12-31 23:59:59 is Time(1483228799), which is day 17166
\* and second 86399 of that day, and its successor 2017-01-01 00:00:00 is
\* Time(1483228800).
C13_Witness ==
    /\ spc = "done"
    /\ moment = Civil(2016, 12, 31, <<23, 59, 59>>)
    /\ successor = Civil(2017, 1, 1, <<0, 0, 0>>)
    /\ stamp = Ok([days |-> 17166, secs |-> 86399])
    /\ succ_stamp = Ok([days |-> 17167, secs |-> 0])
    /\ other = Civil(2000, 2, 29, <<17, 12, 42>>)
    /\ TimeLess(other_stamp.time, stamp.time)

---------------------------------------------------------------------------
(***************************************************************************)
(* time.rs: days_before_year_since_unix_epoch, year after year (SpecYears) *)
(***************************************************************************)

\* the last year the walk reaches: the last a four-digit year can name
LastYear == 9999

\* the number of days of year y in the Gregorian calendar
YearLength(y) == IF IsGregorianLeapYear(y) THEN 366 ELSE 365

YearsInit ==
    /\ walk_year = UNIX_EPOCH_YEAR
    /\ before_ad = 0
    /\ before = [ok |-> FALSE, days |-> 0]
    /\ before_last = [ok |-> FALSE, days |-> 0]
    /\ elapsed = 0
    /\ ypc = "call"

\* days_before_year_ad and days_before_year_since_unix_epoch on the year
DaysBeforeYear ==
    /\ ypc = "call"
    /\ before_ad' = days_before_year_ad(walk_year)
    /\ before' = days_before_year_since_unix_epoch(walk_year)
    /\ before_last' = before
    /\ ypc' = "step"
    /\ UNCHANGED <<walk_year, elapsed, succVars, timeVars, errVars, chainVars>>

\* on to the next year, with the length of this one added to the sum
NextYear ==
    /\ ypc = "step"
    /\ walk_year < LastYear
    /\ walk_year' = walk_year + 1
    /\ elapsed' = elapsed + YearLength(walk_year)
    /\ ypc' = "call"
    /\ UNCHANGED <<before_ad, before, before_last, succVars, timeVars,
                   errVars, chainVars>>

NextYears == DaysBeforeYear \/ NextYear

InitYears == YearsInit /\ SuccIdle /\ TimeIdle /\ ErrIdle /\ ChainIdle

SpecYears == InitYears /\ [][NextYears]_vars

\* C14: days_before_year_ad(1970) is DAYS_BEFORE_UNIX_EPOCH_AD and
\* days_before_year_since_unix_epoch(1970) is 0; from one year to the next
\* days_before_year_since_unix_epoch grows by 366 after a Gregorian leap
\* year and by 365 after any other; so for every year y from 1970 on it is
\* the sum of the lengths of the years 1970 .. y - 1, and it is
\* (y-1)*365 + (y-1)/4 - (y-1)/100 + (y-1)/400 less the 719162 days before
\* 1970.
C14_DaysBeforeYear ==
    ypc = "step"
        => /\ before.ok
           /\ walk_year = 1970
                => /\ before_ad = DAYS_BEFORE_UNIX_EPOCH_AD
                   /\ before.days = 0
           /\ walk_year > 1970
                => /\ before_last.ok
                   /\ before.days - before_last.days
                        = (IF IsGregorianLeapYear(walk_year - 1)
                           THEN 366 ELSE 365)
           /\ before.days = elapsed
           /\ before.days
                = ((walk_year - 1) * 365) + ((walk_year - 1) \div 4)
                    - ((walk_year - 1) \div 100) + ((walk_year - 1) \div 400)
                    - 719162

\* C14 witness: there are 11323 days from 1970 to 2001, 366 more than to
\* 2000, a leap year by the 400-year rule.
C14_Witness ==
    /\ ypc = "step"
    /\ walk_year = 2001
    /\ before = [ok |-> TRUE, days |-> 11323]
    /\ before_last = [ok |-> TRUE, days |-> 10957]
    /\ elapsed = 11323

---------------------------------------------------------------------------
(***************************************************************************)
(* Properties of Time::from_der on malformed content (SpecTime)            *)
(***************************************************************************)

\* What the content of a time element says, read off its bytes: the number
\* of digits it must start with, whether they are there, and the fields
\* they spell.
DigitCount(in) == IF in.tag = "UTCTime" THEN 12 ELSE 14

HasDigits(in) ==
    \A p \in 1 .. DigitCount(in) :
        p <= Len(in.value) /\ in.value[p] \in 48 .. 57

PairAt(in, p) == ((in.value[p] - 48) * 10) + (in.value[p + 1] - 48)

YearOf(in) ==
    IF in.tag = "UTCTime"
    THEN (IF PairAt(in, 1) >= 50 THEN 1900 ELSE 2000) + PairAt(in, 1)
    ELSE (PairAt(in, 1) * 100) + PairAt(in, 3)

MonthOf(in) == PairAt(in, DigitCount(in) - 9)
DayOf(in) == PairAt(in, DigitCount(in) - 7)
HourOf(in) == PairAt(in, DigitCount(in) - 5)
MinuteOf(in) == PairAt(in, DigitCount(in) - 3)
SecondOf(in) == PairAt(in, DigitCount(in) - 1)

\* the content is one of: too short or a non-digit among the digits; month
\* not 1..12; day not in the month; hour above 23; minute above 59; second
\* above 59; no byte, or a byte other than "Z", after the seconds
MalformedTime(in) ==
    \/ ~HasDigits(in)
    \/ /\ HasDigits(in)
       /\ \/ MonthOf(in) \notin 1 .. 12
          \/ /\ MonthOf(in) \in 1 .. 12
             /\ DayOf(in) \notin 1 .. MonthLength(YearOf(in), MonthOf(in))
          \/ HourOf(in) > 23
          \/ MinuteOf(in) > 59
          \/ SecondOf(in) > 59
          \/ Len(in.value) = DigitCount(in)
          \/ /\ Len(in.value) > DigitCount(in)
             /\ in.value[DigitCount(in) + 1] # 90

\* C15: Time::from_der returns BadDerTime, and no Time, for a UTCTime or
\* GeneralizedTime whose content is too short, has a non-digit where a
\* digit belongs, has its month outside 1..12, its day outside the month,
\* its hour above 23, its minute or second above 59, or has anything but
\* "Z" after the seconds.
C15_FieldValidation ==
    (tpc # "start" /\ IsTimeTag(input.tag) /\ MalformedTime(input))
        => parsed = BadDerTime

\* C15 witness: the GeneralizedTime 20170229171242Z, 29 February of a year
\* that is not a leap year, has been rejected with BadDerTime.
C15_Witness ==
    /\ tpc = "done"
    /\ input = [tag |-> "GeneralizedTime",
                value |-> <<50, 48, 49, 55, 48, 50, 50, 57,
                            49, 55, 49, 50, 52, 50, 90>>]
    /\ MalformedTime(input)
    /\ parsed = BadDerTime

---------------------------------------------------------------------------
(***************************************************************************)
(* Panic freedom of Time::from_der (SpecTime)                              *)
(***************************************************************************)

\* C16: Time::from_der returns a Time or an error on every content, never
\* reaching unreachable!() in days_in_month or time_from_ymdhms_utc.  When
\* the fields pass their checks and time_from_ymdhms_utc is called, the
\* month is in 1..12 and the day is at least 1; a year before 1970, year 0
\* included, gives BadDerTime before year - 1 or the subtraction of
\* DAYS_BEFORE_UNIX_EPOCH_AD is evaluated; from 1970 on
\* days_before_year_ad(year) is at least DAYS_BEFORE_UNIX_EPOCH_AD.  A Time
\* returned is no smaller than 0 and no larger than day 2932896, second
\* 86399 (Time(253402300799), the last second of 9999), far inside u64.
C16_PanicFreedom ==
    tpc # "start"
        => /\ parsed.tag \in {"Ok", "Err"}
           /\ parsed.tag = "Ok"
                => /\ parsed.time.days \in 0 .. 2932896
                   /\ parsed.time.secs \in 0 .. SecondsPerDay - 1
           /\ (IsTimeTag(input.tag) /\ ~MalformedTime(input))
                => /\ MonthOf(input) \in 1 .. 12
                   /\ days_in_month(YearOf(input), MonthOf(input)) # Unreachable
                   /\ DayOf(input) >= 1
                   /\ YearOf(input) < UNIX_EPOCH_YEAR => parsed = BadDerTime
                   /\ YearOf(input) >= UNIX_EPOCH_YEAR
                        => /\ YearOf(input) - 1 >= 0
                           /\ days_before_year_ad(YearOf(input))
                                >= DAYS_BEFORE_UNIX_EPOCH_AD
                           /\ \/ parsed.tag = "Ok"
                              \/ parsed = Err(TrailingData("Time"))

\* C16 witness: the GeneralizedTime 00000101000000Z, 1 January of year 0,
\* passed the field checks and was rejected with BadDerTime.
C16_Witness ==
    /\ tpc = "done"
    /\ input = [tag |-> "GeneralizedTime",
                value |-> <<48, 48, 48, 48, 48, 49, 48, 49,
                            48, 48, 48, 48, 48, 48, 90>>]
    /\ ~MalformedTime(input)
    /\ YearOf(input) = 0
    /\ parsed = BadDerTime

====
